---- MODULE Spec2Model ----
\* Model of the session generator bot (src/tg2.py): the admin store, the
\* artifact store, the per-user conversation flags kept in context.user_data,
\* the Telethon clients opened by the flow, and the three registered handlers
\* (start_command, button_callback, handle_message). python-telegram-bot runs
\* one handler to completion before it takes the next update
\* (concurrent_updates is left at its default), so each handler is one action.
EXTENDS Integers, Sequences, FiniteSets, TLC

\* ------------------------------------------------------------------ bounds

\* Number of Telegram users that send updates (ids 1..NumUsers, at most 9).
NumUsers == 3
\* Telethon clients created over a run.
MaxClients == 2
\* Updates delivered over a run.
MaxEvents == 4
MaxStoreOps == 2
MaxLen == 3
MaxPending == 2

\* --------------------------------------------------------------- constants

\* The main admin's user id (an abstract small id stands for 7325746010).
MAIN_ADMIN_ID == 1

Users == 1..NumUsers
\* Ids a text or a callback payload can denote: 0 is "0", a falsy id.
Ids == 0..NumUsers

\* "None" for a text column / attribute.
None == <<>>

VARIABLES
    admins,      \* table admins: user_id (in Ids) -> row, or NoRow
    sessions,    \* table sessions: rows in id order (AUTOINCREMENT)
    user_data,   \* context.user_data of every user
    clients,     \* every TelegramClient created so far
    event,       \* the update the last handler run was given
    trace,       \* what that handler run did, in order
    steps,       \* updates handled so far
    update_queue, \* Application.update_queue: updates arrived, not yet fetched
    running      \* updates fetched whose handler has not returned

vars == <<admins, sessions, user_data, clients, event, trace, steps,
          update_queue, running>>

\* ------------------------------------------------------------ str helpers
\* Texts are sequences of one-character strings.

Digits == {"0", "1", "2", "3", "4", "5", "6", "7", "8", "9"}

RECURSIVE lstrip(_)
lstrip(s) == IF s # <<>> /\ Head(s) = " " THEN lstrip(Tail(s)) ELSE s

RECURSIVE rstrip(_)
rstrip(s) ==
    IF s # <<>> /\ s[Len(s)] = " " THEN rstrip(SubSeq(s, 1, Len(s) - 1)) ELSE s

\* str.strip()
strip(s) == rstrip(lstrip(s))

\* str.replace(old, ''), old one character
RECURSIVE replace(_, _)
replace(s, old) ==
    IF s = <<>> THEN <<>>
    ELSE IF Head(s) = old THEN replace(Tail(s), old)
    ELSE <<Head(s)>> \o replace(Tail(s), old)

\* str.isdigit(): non-empty and every character a digit
isdigit(s) == s # <<>> /\ \A i \in 1..Len(s) : s[i] \in Digits

\* str.startswith(c), c one character
startswith(s, c) == s # <<>> /\ s[1] = c

DigitVal(c) ==
    CASE c = "0" -> 0 [] c = "1" -> 1 [] c = "2" -> 2 [] c = "3" -> 3
      [] c = "4" -> 4 [] c = "5" -> 5 [] c = "6" -> 6 [] c = "7" -> 7
      [] c = "8" -> 8 [] c = "9" -> 9

RECURSIVE DigitsVal(_, _)
DigitsVal(s, acc) ==
    IF s = <<>> THEN acc ELSE DigitsVal(Tail(s), 10 * acc + DigitVal(Head(s)))

\* int(s): [ok |-> FALSE] stands for ValueError
int(s) ==
    LET t == strip(s)
        signed == t # <<>> /\ t[1] \in {"+", "-"}
        body == IF signed THEN Tail(t) ELSE t
    IN  IF isdigit(body)
        THEN [ok |-> TRUE,
              val |-> IF signed /\ t[1] = "-" THEN 0 - DigitsVal(body, 0)
                      ELSE DigitsVal(body, 0)]
        ELSE [ok |-> FALSE, val |-> 0]

\* -------------------------------------------------------- DatabaseManager

NoRow == [present |-> FALSE, username |-> None, first_name |-> None, added_by |-> 0]

Row(username, first_name, added_by) ==
    [present |-> TRUE, username |-> username, first_name |-> first_name,
     added_by |-> added_by]

MainAdminRow == Row(<<"m">>, <<"M">>, MAIN_ADMIN_ID)

\* init_database with INSERT OR REPLACE of the main admin
init_database_or_replace(adm) == [adm EXCEPT ![MAIN_ADMIN_ID] = MainAdminRow]

\* INSERT OR IGNORE of the main admin into an existing table
init_database(adm) ==
    IF adm[MAIN_ADMIN_ID].present THEN adm
    ELSE [adm EXCEPT ![MAIN_ADMIN_ID] = MainAdminRow]

\* is_admin answering True when the read fails
is_admin_fail_open(adm, user_id, dbOk) ==
    IF dbOk THEN adm[user_id].present ELSE TRUE

\* is_admin falling back to the configured main admin when the read fails
is_admin_main_fallback(adm, user_id, dbOk) ==
    IF dbOk THEN adm[user_id].present ELSE user_id = MAIN_ADMIN_ID

\* is_admin: dbOk = FALSE is a storage error, answered False
is_admin(adm, user_id, dbOk) ==
    IF dbOk THEN adm[user_id].present ELSE FALSE

\* add_admin with INSERT OR IGNORE: an existing row is kept as it is
add_admin_or_ignore(adm, user_id, username, first_name, added_by, dbOk) ==
    IF dbOk
    THEN [admins |-> IF adm[user_id].present THEN adm
                     ELSE [adm EXCEPT ![user_id] =
                               Row(username, first_name, added_by)],
          ret |-> TRUE]
    ELSE [admins |-> adm, ret |-> FALSE]

\* add_admin: INSERT OR REPLACE; returns the table and the bool
add_admin(adm, user_id, username, first_name, added_by, dbOk) ==
    IF dbOk
    THEN [admins |-> [adm EXCEPT ![user_id] = Row(username, first_name, added_by)],
          ret |-> TRUE]
    ELSE [admins |-> adm, ret |-> FALSE]

\* remove_admin without the "AND user_id != MAIN_ADMIN_ID" of its DELETE
remove_admin_any(adm, user_id, dbOk) ==
    IF dbOk /\ adm[user_id].present
    THEN [admins |-> [adm EXCEPT ![user_id] = NoRow], ret |-> TRUE]
    ELSE [admins |-> adm, ret |-> FALSE]

\* remove_admin returning True whenever the DELETE ran, whatever its rowcount
remove_admin_ret_true(adm, user_id, dbOk) ==
    IF dbOk
    THEN [admins |-> IF adm[user_id].present /\ user_id # MAIN_ADMIN_ID
                     THEN [adm EXCEPT ![user_id] = NoRow] ELSE adm,
          ret |-> TRUE]
    ELSE [admins |-> adm, ret |-> FALSE]

\* remove_admin: DELETE ... WHERE user_id = ? AND user_id != MAIN_ADMIN_ID;
\* returns the table and rowcount > 0
remove_admin(adm, user_id, dbOk) ==
    IF dbOk /\ adm[user_id].present /\ user_id # MAIN_ADMIN_ID
    THEN [admins |-> [adm EXCEPT ![user_id] = NoRow], ret |-> TRUE]
    ELSE [admins |-> adm, ret |-> FALSE]

\* get_admins: the rows' user ids (the ORDER BY date_added is not modelled)
get_admins(adm) == {u \in DOMAIN adm : adm[u].present}

SessionRow(session_string, phone_number, account_name, created_by) ==
    [session_string |-> session_string, phone_number |-> phone_number,
     account_name |-> account_name, created_by |-> created_by]

\* save_session leaving the created_by column unset
save_session_no_creator(tbl, session_string, phone_number, account_name, created_by, dbOk) ==
    IF dbOk
    THEN [sessions |-> Append(tbl, SessionRow(session_string, phone_number,
                                              account_name, 0)),
          ret |-> TRUE]
    ELSE [sessions |-> tbl, ret |-> FALSE]

\* save_session as INSERT OR REPLACE on a unique phone_number
save_session_replace_phone(tbl, session_string, phone_number, account_name, created_by, dbOk) ==
    IF dbOk
    THEN [sessions |-> Append(SelectSeq(tbl, LAMBDA r : r.phone_number # phone_number),
                              SessionRow(session_string, phone_number,
                                         account_name, created_by)),
          ret |-> TRUE]
    ELSE [sessions |-> tbl, ret |-> FALSE]

\* save_session: INSERT; returns the table and the bool
save_session(tbl, session_string, phone_number, account_name, created_by, dbOk) ==
    IF dbOk
    THEN [sessions |-> Append(tbl, SessionRow(session_string, phone_number,
                                              account_name, created_by)),
          ret |-> TRUE]
    ELSE [sessions |-> tbl, ret |-> FALSE]

RECURSIVE Reverse(_)
Reverse(s) == IF s = <<>> THEN <<>> ELSE Reverse(Tail(s)) \o <<Head(s)>>

\* get_sessions: (phone, name) of the rows, newest first; created_by = 0
\* (falsy) lists every row
get_sessions(tbl, created_by) ==
    LET rows == IF created_by # 0
                THEN SelectSeq(tbl, LAMBDA r : r.created_by = created_by)
                ELSE tbl
    IN  Reverse([i \in 1..Len(rows) |->
                    [phone |-> rows[i].phone_number, name |-> rows[i].account_name]])

\* ------------------------------------------------------------ the updates

DigitChar(n) ==
    CASE n = 0 -> "0" [] n = 1 -> "1" [] n = 2 -> "2" [] n = 3 -> "3"
      [] n = 4 -> "4" [] n = 5 -> "5" [] n = 6 -> "6" [] n = 7 -> "7"
      [] n = 8 -> "8" [] n = 9 -> "9"

\* The texts users send: phone numbers, codes, passwords and user ids.
Texts ==
    { <<"+", "1", " ", "5">>, <<"4", " ", "6">>, <<"a", "b">> }
    \cup { <<DigitChar(n)>> : n \in Ids }

\* Forward metadata of a text message: 0 not forwarded, -1 forwarded with the
\* sender hidden (forward_origin without sender_user), u forwarded from u.
NotForwarded == 0
HiddenSender == -1
Forwards == {NotForwarded, HiddenSender} \cup Users
ForwardedText == <<"a", "b">>
ForwardedUsername == <<"u">>
ForwardedFirstName == <<"F">>

\* callback_data: a name and, for "remove_admin_<n>", the suffix n
\* (NonNumeric when int() of it raises ValueError).
NonNumeric == -1
Data(name, arg) == [name |-> name, arg |-> arg]
NoData == Data("", 0)
Buttons ==
    { Data(n, 0) : n \in {"generate_session", "list_sessions", "add_admin",
                          "remove_admin", "back_to_main"} }
    \cup { Data("remove_admin_", n) : n \in Users \cup {NonNumeric} }

Event(kind, user, data, text, fwd) ==
    [kind |-> kind, user |-> user, data |-> data, text |-> text, fwd |-> fwd]

NoEvent == Event("none", 0, NoData, <<>>, NotForwarded)

\* One thing a handler did: an API call to the bot transport ("answer",
\* "reply", "edit", "send"; who is the chat), a Telethon call (who is the
\* client) or a table write (who is the acting user); ok tells whether the
\* call succeeded. Replies are taken to be delivered, except the two sends of
\* complete_session_generation (the session message and the backup), whose
\* failure it handles.
Eff(op, who, text, payload, ok) ==
    [op |-> op, who |-> who, text |-> text, payload |-> payload, ok |-> ok]

MessageOps == {"reply", "edit", "send"}
ProviderOps == {"connect", "send_code_request", "sign_in", "sign_in_password",
                "is_user_authorized", "session_save", "get_me", "disconnect"}
StoreWriteOps == {"save_session", "add_admin", "remove_admin"}

\* ------------------------------------------------------------ the state

NoClient == 0

EmptyUserData ==
    [expecting_phone |-> FALSE, expecting_code |-> FALSE, expecting_2fa |-> FALSE,
     expecting_admin_id |-> FALSE, temp_client |-> NoClient, phone |-> None]

\* A TelegramClient after connect(): the user whose flow made it, whether it
\* is connected and authorized, and how often disconnect() was called on it.
Client(owner) ==
    [owner |-> owner, started |-> TRUE, connected |-> TRUE, authorized |-> FALSE,
     closes |-> 0]

\* A TelegramClient whose connect() raised.
FailedClient(owner) ==
    [Client(owner) EXCEPT !.started = FALSE, !.connected = FALSE]

\* client.disconnect()
disconnect(cl, c) ==
    [cl EXCEPT ![c].connected = FALSE, ![c].closes = cl[c].closes + 1]

\* The admins table a start can find on disk: empty on the first start, or
\* the rows an earlier run left. Users other than the main admin differ only
\* by name, so the tables with admins 1..k stand for all of them.
StoredAdminTables ==
    { [i \in Ids |-> IF i \in 1..k THEN
                        IF i = MAIN_ADMIN_ID THEN MainAdminRow
                        ELSE Row(None, None, MAIN_ADMIN_ID)
                     ELSE NoRow] : k \in 0..NumUsers }

Init ==
    /\ \E stored \in StoredAdminTables : admins = init_database(stored)
    /\ sessions = <<>>
    /\ user_data = [u \in Users |-> EmptyUserData]
    /\ clients = <<>>
    /\ event = NoEvent
    /\ trace = <<>>
    /\ steps = 0
    /\ update_queue = <<>>
    /\ running = <<>>

\* The conversation data kept once for the whole bot instead of per user
SetUD_shared(u, ud) == [b \in Users |-> ud]

SetUD(u, ud) == [user_data EXCEPT ![u] = ud]

RemoveAt(s, i) == SubSeq(s, 1, i - 1) \o SubSeq(s, i + 1, Len(s))

\* The dispatcher delivers one more update (at most MaxEvents over a run) to
\* its handler, which runs to its end. Where the update queue is modelled the
\* update is one of those in progress; elsewhere arrival, fetch and handling
\* are one step and the queue stays empty.
Deliver ==
    /\ steps < MaxEvents
    /\ steps' = steps + 1
    /\ UNCHANGED update_queue
    /\ IF running = <<>> THEN UNCHANGED running
       ELSE \E i \in DOMAIN running :
                /\ running[i].event = event'
                /\ running' = RemoveAt(running, i)

\* ------------------------------------------------------------- handlers

\* start_command: the welcome reply, for admins only
start_command(u, dbOk) ==
    /\ event' = Event("command", u, NoData, <<>>, NotForwarded)
    /\ Deliver
    /\ trace' = IF ~is_admin(admins, u, dbOk) THEN <<>>
                 ELSE <<Eff("reply", u,
                            IF u = MAIN_ADMIN_ID THEN "main_admin_panel"
                            ELSE "admin_panel", <<>>, TRUE)>>
    /\ UNCHANGED <<admins, sessions, user_data, clients>>

\* get_main_keyboard: the buttons offered to user_id
get_main_keyboard(user_id) ==
    IF user_id = MAIN_ADMIN_ID
    THEN {"generate_session", "list_sessions", "add_admin", "remove_admin"}
    ELSE {"generate_session", "list_sessions"}

\* handle_generate_session: prompt for the phone number
handle_generate_session(u, pre) ==
    /\ trace' = pre \o <<Eff("edit", u, "ask_phone", <<>>, TRUE)>>
    /\ user_data' = SetUD(u, [user_data[u] EXCEPT !.expecting_phone = TRUE])
    /\ UNCHANGED <<admins, sessions, clients>>

\* handle_list_sessions: the caller's rows, or "no sessions" (also when the
\* read fails and get_sessions answers [])
handle_list_sessions(u, pre) ==
    \E dbOk \in BOOLEAN :
        LET rows == IF dbOk THEN get_sessions(sessions, u) ELSE <<>>
        IN  /\ trace' = pre \o
                  <<IF rows = <<>> THEN Eff("edit", u, "no_sessions", <<>>, TRUE)
                    ELSE Eff("edit", u, "sessions", rows, TRUE)>>
            /\ UNCHANGED <<admins, sessions, user_data, clients>>

\* handle_add_admin: prompt for the new admin's id
handle_add_admin(u, pre) ==
    /\ trace' = pre \o <<Eff("edit", u, "ask_admin_id", <<>>, TRUE)>>
    /\ user_data' = SetUD(u, [user_data[u] EXCEPT !.expecting_admin_id = TRUE])
    /\ UNCHANGED <<admins, sessions, clients>>

\* handle_remove_admin: one button per removable admin
handle_remove_admin(u, pre) ==
    \E dbOk \in BOOLEAN :
        LET listed == IF dbOk THEN get_admins(admins) ELSE {}
            removable_admins == listed \ {MAIN_ADMIN_ID}
        IN  /\ trace' = pre \o
                  <<IF removable_admins = {}
                    THEN Eff("edit", u, "no_removable", <<>>, TRUE)
                    ELSE Eff("edit", u, "select_admin", removable_admins, TRUE)>>
            /\ UNCHANGED <<admins, sessions, user_data, clients>>

\* The removal that also forgets the removed user's conversation
confirm_remove_admin_reset(u, admin_id, pre) ==
    \E dbOk \in BOOLEAN :
        LET res == remove_admin(admins, admin_id, dbOk)
        IN  /\ admins' = res.admins
            /\ trace' = pre \o
                  IF res.ret
                  THEN <<Eff("remove_admin", u, "", <<admin_id>>, TRUE),
                         Eff("edit", u, "admin_removed", <<admin_id>>, TRUE)>>
                  ELSE <<Eff("edit", u, "remove_failed", <<>>, TRUE)>>
            /\ user_data' = IF res.ret THEN SetUD(admin_id, EmptyUserData)
                            ELSE user_data
            /\ UNCHANGED <<sessions, clients>>

\* confirm_remove_admin: delete the row and report
confirm_remove_admin(u, admin_id, pre) ==
    \E dbOk \in BOOLEAN :
        LET res == remove_admin(admins, admin_id, dbOk)
        IN  /\ admins' = res.admins
            /\ trace' = pre \o
                  IF res.ret
                  THEN <<Eff("remove_admin", u, "", <<admin_id>>, TRUE),
                         Eff("edit", u, "admin_removed", <<admin_id>>, TRUE)>>
                  ELSE <<Eff("edit", u, "remove_failed", <<>>, TRUE)>>
            /\ UNCHANGED <<sessions, user_data, clients>>

\* The "back_to_main" branch of button_callback: the main menu
back_to_main(u, pre) ==
    /\ trace' = pre \o <<Eff("edit", u, "main_menu", get_main_keyboard(u), TRUE)>>
    /\ UNCHANGED <<admins, sessions, user_data, clients>>

\* The if/elif chain of button_callback, for an admin
button_dispatch(u, data, pre) ==
    IF data.name = "generate_session" THEN handle_generate_session(u, pre)
    ELSE IF data.name = "list_sessions" THEN handle_list_sessions(u, pre)
    ELSE IF data.name = "add_admin" /\ u = MAIN_ADMIN_ID
        THEN handle_add_admin(u, pre)
    ELSE IF data.name = "remove_admin" /\ u = MAIN_ADMIN_ID
        THEN handle_remove_admin(u, pre)
    ELSE IF data.name = "remove_admin_" /\ data.arg # NonNumeric
        THEN confirm_remove_admin(u, data.arg, pre)
    ELSE IF data.name = "back_to_main" THEN back_to_main(u, pre)
    ELSE \* no branch taken, or int() raised and the error was logged
         /\ trace' = pre
         /\ UNCHANGED <<admins, sessions, user_data, clients>>

\* button_callback: answer the query, then serve admins only
button_callback(u, data, dbOk) ==
    LET pre == <<Eff("answer", u, "", <<>>, TRUE)>>
    IN  /\ event' = Event("button", u, data, <<>>, NotForwarded)
        /\ Deliver
        /\ IF ~is_admin(admins, u, dbOk)
           THEN /\ trace' = pre
                /\ UNCHANGED <<admins, sessions, user_data, clients>>
           ELSE button_dispatch(u, data, pre)

\* ----------------------------------------------------- the provider side
\* What Telethon and Telegram answer is the environment's choice.

\* get_me(): first_name, last_name, username (None when unset), or a fault
Me(first_name, last_name, username) ==
    [first_name |-> first_name, last_name |-> last_name, username |-> username]
MeFault == Me(<<"!">>, <<"!">>, <<"!">>)
Mes == { Me(<<"A">>, None, <<"a">>), Me(None, None, None) }

Unknown == <<"U", "n", "k", "n", "o", "w", "n">>

\* f"{me.first_name or ''} {me.last_name or ''}".strip(), else the username,
\* else "Unknown"
account_name(me) ==
    LET full == strip(me.first_name \o <<" ">> \o me.last_name)
    IN  IF full # <<>> THEN full
        ELSE IF me.username # None THEN me.username ELSE Unknown

CodeOutcomes == {"authorized", "unauthorized", "password_needed", "code_invalid", "fault"}
PasswordOutcomes == {"authorized", "unauthorized", "password_invalid", "fault"}

\* The outcomes in which sign_in returned without raising.
SignedIn == {"authorized", "unauthorized"}

\* The test that treats every client as authorized once sign_in returned
is_user_authorized_unchecked(outcome) == TRUE

\* if await client.is_user_authorized(): what the handler takes the provider's
\* answer to be after sign_in returned.
is_user_authorized(outcome) == outcome = "authorized"

\* A call on a disconnected client can only fail.
Answers(cl, c, outcomes) == IF cl[c].connected THEN outcomes ELSE {"fault"}

\* ------------------------------------------------- the conversation steps

\* client.session.save(): the session string of client c
session_save(c) == <<"S", DigitChar(c)>>

\* update.message.date: updates are dated by their order of arrival
message_date == steps + 1

\* The backup message with the framing of the wrong branch
backup_message_always_backup(u, shown, date) ==
    [text |-> "backup", payload |-> shown \o <<u, date>>]

\* The message sent to the main admin: the "Session Backup Alert" with the
\* generating user and the time, or the "Self-Generated Session" notice with
\* the time when the main admin generated it
backup_message(u, shown, date) ==
    IF u # MAIN_ADMIN_ID
    THEN [text |-> "backup", payload |-> shown \o <<u, date>>]
    ELSE [text |-> "self_backup", payload |-> shown \o <<date>>]

\* The backup send with a failure left to the outer except, which reports it
send_backup_unguarded(u, shown, date, relayOk) ==
    LET m == backup_message(u, shown, date)
    IN  <<Eff("send", MAIN_ADMIN_ID, m.text, m.payload, relayOk)>> \o
        IF relayOk THEN <<>>
        ELSE <<Eff("edit", u, "error_generating", <<>>, TRUE)>>

\* The backup send inside its own try/except: a failure is only logged
send_backup(u, shown, date, relayOk) ==
    LET m == backup_message(u, shown, date)
    IN  <<Eff("send", MAIN_ADMIN_ID, m.text, m.payload, relayOk)>>

\* complete_session_generation: ud and cl are the user's data and the clients
\* as the caller left them, pre what the handler did so far
complete_session_generation(u, ud, cl, c, phone, pre) ==
    \E me \in Mes \cup {MeFault}, saveOk \in BOOLEAN, showOk \in BOOLEAN,
       relayOk \in BOOLEAN :
        LET session_string == session_save(c)
            name == account_name(me)
            res == save_session(sessions, session_string, phone, name, u, saveOk)
            shown == <<name, phone, session_string>>
            extract == <<Eff("session_save", c, "", <<>>, TRUE)>>
        IN  IF me = MeFault
            THEN \* get_me raised: the except branch reports the error
                /\ trace' = pre \o extract \o
                      <<Eff("get_me", c, "", <<>>, FALSE),
                        Eff("edit", u, "error_generating", <<>>, TRUE)>>
                /\ user_data' = SetUD(u, ud)
                /\ clients' = cl
                /\ UNCHANGED <<admins, sessions>>
            ELSE
                /\ clients' = disconnect(cl, c)
                /\ user_data' = SetUD(u, [ud EXCEPT !.temp_client = NoClient])
                /\ sessions' = res.sessions
                /\ UNCHANGED admins
                /\ trace' = pre \o extract \o
                      <<Eff("get_me", c, "", <<>>, TRUE),
                        Eff("disconnect", c, "", <<>>, TRUE),
                        Eff("save_session", u, "", shown, res.ret)>> \o
                      IF ~res.ret
                      THEN <<Eff("edit", u, "save_failed", <<>>, TRUE)>>
                      ELSE IF ~showOk
                      THEN \* the edit raised: the except branch reports it
                           <<Eff("edit", u, "session_generated", shown, FALSE),
                             Eff("edit", u, "error_generating", <<>>, TRUE)>>
                      ELSE <<Eff("edit", u, "session_generated", shown, TRUE)>>
                           \o send_backup(u, shown, message_date, relayOk)

\* The phone number test asking only for the leading "+"
valid_phone_prefix_only(phone) == startswith(phone, "+")

\* The phone number test of process_phone_input
valid_phone(phone) ==
    startswith(phone, "+") /\ isdigit(replace(Tail(phone), " "))

\* The clean-up of an accepted phone number
clean_phone(phone) == replace(replace(phone, " "), "-")

\* process_phone_input
process_phone_input(u, text) ==
    LET ud == [user_data[u] EXCEPT !.expecting_phone = FALSE]
        phone == strip(text)
        c == Len(clients) + 1
        cl == Append(clients, Client(u))
        pre == <<Eff("reply", u, "connecting", <<>>, TRUE)>>
        failed == <<Eff("edit", u, "error_sending_code", <<>>, TRUE)>>
    IN  IF ~valid_phone(phone)
        THEN /\ trace' = <<Eff("reply", u, "invalid_phone", <<>>, TRUE)>>
             /\ user_data' = SetUD(u, ud)
             /\ UNCHANGED <<admins, sessions, clients>>
        ELSE /\ Len(clients) < MaxClients
             /\ UNCHANGED <<admins, sessions>>
             /\ \E outcome \in {"connect_fault", "code_fault", "ok"} :
                  CASE outcome = "connect_fault" ->
                        /\ trace' = pre \o <<Eff("connect", c, "", <<>>, FALSE)>>
                                         \o failed
                        /\ clients' = Append(clients, FailedClient(u))
                        /\ user_data' = SetUD(u, ud)
                    [] outcome = "code_fault" ->
                        /\ trace' = pre \o
                              <<Eff("connect", c, "", <<>>, TRUE),
                                Eff("send_code_request", c, "", clean_phone(phone),
                                    FALSE)>> \o failed
                        /\ clients' = cl
                        /\ user_data' = SetUD(u, ud)
                    [] outcome = "ok" ->
                        /\ trace' = pre \o
                              <<Eff("connect", c, "", <<>>, TRUE),
                                Eff("send_code_request", c, "", clean_phone(phone),
                                    TRUE),
                                Eff("edit", u, "code_sent", <<>>, TRUE)>>
                        /\ clients' = cl
                        /\ user_data' = SetUD(u,
                              [ud EXCEPT !.temp_client = c,
                                         !.phone = clean_phone(phone),
                                         !.expecting_code = TRUE])

\* The clean-up of a code without the replace(' ', '')
clean_code_keep_spaces(code) == strip(code)

\* The clean-up of a code: code.replace(' ', '').strip()
clean_code(code) == strip(replace(code, " "))

\* user_data after PhoneCodeInvalidError, with no flag set again
after_code_invalid_idle(ud) == ud

\* user_data after PhoneCodeInvalidError: the code is awaited again
after_code_invalid(ud) == [ud EXCEPT !.expecting_code = TRUE]

\* process_code_input
process_code_input(u, text) ==
    LET ud == [user_data[u] EXCEPT !.expecting_code = FALSE]
        code == clean_code(text)
        c == ud.temp_client
        phone == ud.phone
        pre == <<Eff("reply", u, "authenticating", <<>>, TRUE)>>
    IN  IF ~isdigit(code)
        THEN /\ trace' = <<Eff("reply", u, "invalid_code_format", <<>>, TRUE)>>
             /\ user_data' = SetUD(u, [ud EXCEPT !.expecting_code = TRUE])
             /\ UNCHANGED <<admins, sessions, clients>>
        ELSE IF c = NoClient \/ phone = None
        THEN /\ trace' = <<Eff("reply", u, "session_expired", <<>>, TRUE)>>
             /\ user_data' = SetUD(u, ud)
             /\ UNCHANGED <<admins, sessions, clients>>
        ELSE \E outcome \in Answers(clients, c, CodeOutcomes) :
            LET sign_in == Eff("sign_in", c, "", <<phone, code>>,
                               outcome \in SignedIn)
                asked == <<Eff("is_user_authorized", c, "", <<>>,
                               outcome = "authorized")>>
            IN  CASE outcome \in SignedIn /\ is_user_authorized(outcome) ->
                      complete_session_generation(u, ud,
                          [clients EXCEPT ![c].authorized = outcome = "authorized"],
                          c, phone, pre \o <<sign_in>> \o asked)
                  [] outcome \in SignedIn /\ ~is_user_authorized(outcome) ->
                      /\ trace' = pre \o <<sign_in>> \o asked \o
                            <<Eff("edit", u, "authentication_failed", <<>>, TRUE)>>
                      /\ user_data' = SetUD(u, ud)
                      /\ UNCHANGED <<admins, sessions, clients>>
                  [] outcome = "password_needed" ->
                      /\ trace' = pre \o
                            <<sign_in, Eff("edit", u, "ask_2fa", <<>>, TRUE)>>
                      /\ user_data' = SetUD(u, [ud EXCEPT !.expecting_2fa = TRUE])
                      /\ UNCHANGED <<admins, sessions, clients>>
                  [] outcome = "code_invalid" ->
                      /\ trace' = pre \o
                            <<sign_in, Eff("edit", u, "invalid_code", <<>>, TRUE)>>
                      /\ user_data' = SetUD(u, after_code_invalid(ud))
                      /\ UNCHANGED <<admins, sessions, clients>>
                  [] outcome = "fault" ->
                      \* any other error is logged by the outer except
                      /\ trace' = pre \o <<sign_in>>
                      /\ user_data' = SetUD(u, ud)
                      /\ UNCHANGED <<admins, sessions, clients>>

\* process_2fa_input
process_2fa_input(u, password) ==
    LET ud == [user_data[u] EXCEPT !.expecting_2fa = FALSE]
        c == ud.temp_client
        phone == ud.phone
        pre == <<Eff("reply", u, "verifying_2fa", <<>>, TRUE)>>
    IN  IF c = NoClient \/ phone = None
        THEN /\ trace' = <<Eff("reply", u, "session_expired", <<>>, TRUE)>>
             /\ user_data' = SetUD(u, ud)
             /\ UNCHANGED <<admins, sessions, clients>>
        ELSE \E outcome \in Answers(clients, c, PasswordOutcomes) :
            LET sign_in == Eff("sign_in_password", c, "", password,
                               outcome \in SignedIn)
                asked == <<Eff("is_user_authorized", c, "", <<>>,
                               outcome = "authorized")>>
            IN  CASE outcome \in SignedIn /\ is_user_authorized(outcome) ->
                      complete_session_generation(u, ud,
                          [clients EXCEPT ![c].authorized = outcome = "authorized"],
                          c, phone, pre \o <<sign_in>> \o asked)
                  [] outcome \in SignedIn /\ ~is_user_authorized(outcome) ->
                      /\ trace' = pre \o <<sign_in>> \o asked \o
                            <<Eff("edit", u, "authentication_failed", <<>>, TRUE)>>
                      /\ user_data' = SetUD(u, ud)
                      /\ UNCHANGED <<admins, sessions, clients>>
                  [] outcome = "password_invalid" ->
                      /\ trace' = pre \o
                            <<sign_in, Eff("edit", u, "invalid_2fa", <<>>, TRUE)>>
                      /\ user_data' = SetUD(u, [ud EXCEPT !.expecting_2fa = TRUE])
                      /\ UNCHANGED <<admins, sessions, clients>>
                  [] outcome = "fault" ->
                      /\ trace' = pre \o <<sign_in>>
                      /\ user_data' = SetUD(u, ud)
                      /\ UNCHANGED <<admins, sessions, clients>>

\* process_admin_id_input
process_admin_id_input(u, text, fwd) ==
    LET ud == [user_data[u] EXCEPT !.expecting_admin_id = FALSE]
        forwarded == fwd \in Users
        parsed == int(strip(text))
        new_admin_id == IF forwarded THEN fwd
                        ELSE IF fwd = HiddenSender THEN 0
                        ELSE parsed.val
        username == IF forwarded THEN ForwardedUsername ELSE None
        first_name == IF forwarded THEN ForwardedFirstName ELSE None
        say(t) == /\ trace' = <<Eff("reply", u, t, <<>>, TRUE)>>
                  /\ UNCHANGED admins
    IN  /\ user_data' = SetUD(u, ud)
        /\ UNCHANGED <<sessions, clients>>
        /\ IF fwd = NotForwarded /\ ~parsed.ok THEN say("invalid_user_id")
           ELSE IF new_admin_id = 0 THEN say("could_not_extract")
           ELSE \E readOk \in BOOLEAN, writeOk \in BOOLEAN :
                IF is_admin(admins, new_admin_id, readOk) THEN say("already_admin")
                ELSE LET res == add_admin(admins, new_admin_id, username,
                                          first_name, u, writeOk)
                     IN  /\ admins' = res.admins
                         /\ trace' =
                              IF res.ret
                              THEN <<Eff("add_admin", u, "", <<new_admin_id>>, TRUE),
                                     Eff("reply", u, "admin_added",
                                         <<new_admin_id, first_name, username>>,
                                         TRUE)>>
                              ELSE <<Eff("reply", u, "add_failed", <<>>, TRUE)>>

\* The chain of handle_message passing the awaited password to the code step
message_dispatch_2fa_as_code(u, text, fwd) ==
    IF user_data[u].expecting_phone THEN process_phone_input(u, text)
    ELSE IF user_data[u].expecting_code \/ user_data[u].expecting_2fa
        THEN process_code_input(u, text)
    ELSE IF user_data[u].expecting_admin_id
        THEN process_admin_id_input(u, text, fwd)
    ELSE /\ trace' = <<>>
         /\ UNCHANGED <<admins, sessions, user_data, clients>>

\* The if/elif chain of handle_message, for an admin
message_dispatch(u, text, fwd) ==
    IF user_data[u].expecting_phone THEN process_phone_input(u, text)
    ELSE IF user_data[u].expecting_code THEN process_code_input(u, text)
    ELSE IF user_data[u].expecting_2fa THEN process_2fa_input(u, text)
    ELSE IF user_data[u].expecting_admin_id
        THEN process_admin_id_input(u, text, fwd)
    ELSE /\ trace' = <<>>
         /\ UNCHANGED <<admins, sessions, user_data, clients>>

\* handle_message trusting the flags set when the flow began, without asking
\* the admins table again
handle_message_flow_cached(u, text, fwd, dbOk) ==
    /\ event' = Event("text", u, NoData, text, fwd)
    /\ Deliver
    /\ IF ~is_admin(admins, u, dbOk) /\ user_data[u] = EmptyUserData
       THEN /\ trace' = <<>>
            /\ UNCHANGED <<admins, sessions, user_data, clients>>
       ELSE message_dispatch(u, text, fwd)

\* handle_message: text messages, served for admins only
handle_message(u, text, fwd, dbOk) ==
    /\ event' = Event("text", u, NoData, text, fwd)
    /\ Deliver
    /\ IF ~is_admin(admins, u, dbOk)
       THEN /\ trace' = <<>>
            /\ UNCHANGED <<admins, sessions, user_data, clients>>
       ELSE message_dispatch(u, text, fwd)

\* The text updates a user can send: a typed text, or a forwarded message.
TextUpdates ==
    { <<t, NotForwarded>> : t \in Texts }
    \cup { <<ForwardedText, f>> : f \in Forwards \ {NotForwarded} }

\* One update is delivered and handled to completion; dbOk is whether the
\* handler's read of the admins table succeeds.
Next ==
    \/ \E u \in Users, dbOk \in BOOLEAN : start_command(u, dbOk)
    \/ \E u \in Users, data \in Buttons, dbOk \in BOOLEAN :
            button_callback(u, data, dbOk)
    \/ \E u \in Users, m \in TextUpdates, dbOk \in BOOLEAN :
            handle_message(u, m[1], m[2], dbOk)

Spec == Init /\ [][Next]_vars

\* ------------------------------------------------ the admins table alone
\* DatabaseManager called directly: the table after construction, then up to
\* MaxStoreOps calls; trace keeps the calls with what they returned.

\* The (username, first_name) pairs the bot passes to add_admin: those of a
\* forwarded message's sender, or none for a typed id.
DisplayNames ==
    { [username |-> None, first_name |-> None],
      [username |-> ForwardedUsername, first_name |-> ForwardedFirstName] }

Call(op, user_id, names, added_by, dbOk, ret) ==
    [op |-> op, user_id |-> user_id, names |-> names, added_by |-> added_by,
     dbOk |-> dbOk, ret |-> ret]

StoreCall ==
    /\ steps < MaxStoreOps
    /\ steps' = steps + 1
    /\ UNCHANGED <<sessions, user_data, clients, event, update_queue, running>>

call_init_database ==
    /\ StoreCall
    /\ admins' = init_database(admins)
    /\ trace' = Append(trace, Call("init_database", 0,
                                   [username |-> None, first_name |-> None],
                                   0, TRUE, TRUE))

call_add_admin(user_id, names, added_by, dbOk) ==
    LET res == add_admin(admins, user_id, names.username, names.first_name,
                         added_by, dbOk)
    IN  /\ StoreCall
        /\ admins' = res.admins
        /\ trace' = Append(trace, Call("add_admin", user_id, names, added_by,
                                       dbOk, res.ret))

call_remove_admin(user_id, dbOk) ==
    LET res == remove_admin(admins, user_id, dbOk)
    IN  /\ StoreCall
        /\ admins' = res.admins
        /\ trace' = Append(trace, Call("remove_admin", user_id,
                                       [username |-> None, first_name |-> None],
                                       0, dbOk, res.ret))

StoreNext ==
    \/ call_init_database
    \/ \E user_id \in Ids, names \in DisplayNames,
          added_by \in {MAIN_ADMIN_ID, NumUsers}, dbOk \in BOOLEAN :
            call_add_admin(user_id, names, added_by, dbOk)
    \/ \E user_id \in Ids, dbOk \in BOOLEAN : call_remove_admin(user_id, dbOk)

SpecStore == Init /\ [][StoreNext]_vars

\* --------------------------------------------------- the first start
\* The admins table as found on disk, before DatabaseManager is constructed:
\* __init__ calls init_database, and only then can the methods be called
\* (init_database again when the bot is started again).

BootInit ==
    /\ admins \in StoredAdminTables
    /\ sessions = <<>>
    /\ user_data = [u \in Users |-> EmptyUserData]
    /\ clients = <<>>
    /\ event = NoEvent
    /\ trace = <<>>
    /\ steps = 0
    /\ update_queue = <<>>
    /\ running = <<>>

construct ==
    /\ trace = <<>>
    /\ admins' = init_database(admins)
    /\ trace' = <<Call("init_database", 0,
                       [username |-> None, first_name |-> None], 0, TRUE, TRUE)>>
    /\ UNCHANGED <<sessions, user_data, clients, event, steps, update_queue,
                   running>>

restart == trace # <<>> /\ call_init_database

constructed_add_admin(user_id, names, added_by, dbOk) ==
    trace # <<>> /\ call_add_admin(user_id, names, added_by, dbOk)

constructed_remove_admin(user_id, dbOk) ==
    trace # <<>> /\ call_remove_admin(user_id, dbOk)

BootNext ==
    \/ construct
    \/ restart
    \/ \E user_id \in Ids, names \in DisplayNames,
          added_by \in {MAIN_ADMIN_ID, NumUsers}, dbOk \in BOOLEAN :
            constructed_add_admin(user_id, names, added_by, dbOk)
    \/ \E user_id \in Ids, dbOk \in BOOLEAN :
            constructed_remove_admin(user_id, dbOk)

SpecBoot == BootInit /\ [][BootNext]_vars

\* ------------------------------------------- the text inputs of a flow
\* The main admin has been asked for a phone number, or has been sent a code,
\* and sends one text; the texts are all those of at most MaxLen characters
\* over InputAlphabet, and the examples of the documentation.

InputAlphabet == {"+", "1", "2", "a", " ", "-"}

InputExamples ==
    { <<"+", "1", "2", "3", "4", "5", "6", "7", "8", "9", "0">>,
      <<"1", "2", "3", "4", "5", "6", "7", "8", "9", "0">>,
      <<"+", "1", "2", "a", "4">>,
      <<"+", "1", "-", "2", "3", "4", "-", "5", "6", "7">>,
      <<"+", "1", " ", "2", "3", "4", " ", "5", "6", "7">>,
      <<"4", " ", "6", " ", "9", " ", "4", " ", "9">>,
      <<"a", "b", "c", "1", "2">> }

InputTexts ==
    UNION { [1..n -> InputAlphabet] : n \in 0..MaxLen } \cup InputExamples

\* user_data after handle_generate_session, and after a code was sent
AskedPhone == [EmptyUserData EXCEPT !.expecting_phone = TRUE]

SentCode ==
    [EmptyUserData EXCEPT !.expecting_code = TRUE, !.temp_client = 1,
                          !.phone = <<"+", "1">>]

InputInit ==
    /\ \E stored \in StoredAdminTables : admins = init_database(stored)
    /\ sessions = <<>>
    /\ \/ /\ user_data = [u \in Users |-> IF u = MAIN_ADMIN_ID THEN AskedPhone
                                           ELSE EmptyUserData]
          /\ clients = <<>>
       \/ /\ user_data = [u \in Users |-> IF u = MAIN_ADMIN_ID THEN SentCode
                                           ELSE EmptyUserData]
          /\ clients = <<Client(MAIN_ADMIN_ID)>>
    /\ event = NoEvent
    /\ trace = <<>>
    /\ steps = MaxEvents - 1
    /\ update_queue = <<>>
    /\ running = <<>>

InputNext ==
    \E text \in InputTexts :
        handle_message(MAIN_ADMIN_ID, text, NotForwarded, TRUE)

SpecInput == InputInit /\ [][InputNext]_vars

\* --------------------------------------------------- a flow under way
\* The bot some updates into a run: the sessions table empty or holding a row
\* of an earlier flow, the main admin asked for a phone number, sent a code
\* or asked for the two-factor password; two more updates are handled.

StoredSessionTables ==
    { <<>>, <<SessionRow(<<"S", "0">>, <<"+", "1">>, Unknown, MAIN_ADMIN_ID)>> }

\* user_data after the provider asked for the password
Asked2FA ==
    [EmptyUserData EXCEPT !.expecting_2fa = TRUE, !.temp_client = 1,
                          !.phone = <<"+", "1">>]

FlowInit ==
    /\ \E stored \in StoredAdminTables : admins = init_database(stored)
    /\ sessions \in StoredSessionTables
    /\ \/ /\ user_data = [u \in Users |-> IF u = MAIN_ADMIN_ID THEN AskedPhone
                                           ELSE EmptyUserData]
          /\ clients = <<>>
       \/ /\ \E ud \in {SentCode, Asked2FA} :
                user_data = [u \in Users |-> IF u = MAIN_ADMIN_ID THEN ud
                                             ELSE EmptyUserData]
          /\ clients = <<Client(MAIN_ADMIN_ID)>>
    /\ event = NoEvent
    /\ trace = <<>>
    /\ steps = MaxEvents - 2
    /\ update_queue = <<>>
    /\ running = <<>>

SpecFlow == FlowInit /\ [][Next]_vars

\* ------------------------------------------------- the update dispatcher
\* The Application as create_application builds it (no concurrent_updates,
\* handlers blocking): updates queue up in arrival order, and the next one is
\* fetched only when the handler of the previous one has returned, also when
\* that handler is waiting for Telegram. The main admin has been sent a code
\* and sends up to three updates.

DispatchUpdates ==
    { Event("command", MAIN_ADMIN_ID, NoData, <<>>, NotForwarded),
      Event("button", MAIN_ADMIN_ID, Data("generate_session", 0), <<>>,
            NotForwarded),
      Event("button", MAIN_ADMIN_ID, Data("back_to_main", 0), <<>>, NotForwarded),
      Event("text", MAIN_ADMIN_ID, NoData, <<"4", " ", "6">>, NotForwarded),
      Event("text", MAIN_ADMIN_ID, NoData, <<"a", "b">>, NotForwarded),
      Event("text", MAIN_ADMIN_ID, NoData, <<"+", "1", " ", "5">>, NotForwarded) }

DispatchInit ==
    /\ \E stored \in StoredAdminTables : admins = init_database(stored)
    /\ sessions = <<>>
    /\ user_data = [u \in Users |-> IF u = MAIN_ADMIN_ID THEN SentCode
                                     ELSE EmptyUserData]
    /\ clients = <<Client(MAIN_ADMIN_ID)>>
    /\ event = NoEvent
    /\ trace = <<>>
    /\ steps = MaxEvents - 3
    /\ update_queue = <<>>
    /\ running = <<>>

\* An update arrives from Telegram; n is its place in the order of arrival.
arrive(e) ==
    LET n == steps + Len(running) + Len(update_queue) + 1
    IN  /\ n <= MaxEvents
        /\ Len(update_queue) + Len(running) < MaxPending
        /\ update_queue' = Append(update_queue, [event |-> e, n |-> n])
        /\ UNCHANGED <<admins, sessions, user_data, clients, event, trace, steps,
                       running>>

\* The fetcher with concurrent_updates(True): it does not wait for handlers
fetch_concurrent ==
    /\ update_queue # <<>>
    /\ running' = Append(running, Head(update_queue))
    /\ update_queue' = Tail(update_queue)
    /\ UNCHANGED <<admins, sessions, user_data, clients, event, trace, steps>>

\* The fetcher takes the oldest update once no handler is in progress.
fetch ==
    /\ update_queue # <<>>
    /\ running = <<>>
    /\ running' = Append(running, Head(update_queue))
    /\ update_queue' = Tail(update_queue)
    /\ UNCHANGED <<admins, sessions, user_data, clients, event, trace, steps>>

\* The handler registered for the kind of a fetched update runs to its end.
process_command(i, dbOk) ==
    /\ running[i].event.kind = "command"
    /\ start_command(running[i].event.user, dbOk)

process_callback_query(i, dbOk) ==
    /\ running[i].event.kind = "button"
    /\ button_callback(running[i].event.user, running[i].event.data, dbOk)

process_message(i, dbOk) ==
    /\ running[i].event.kind = "text"
    /\ handle_message(running[i].event.user, running[i].event.text,
                      running[i].event.fwd, dbOk)

DispatchNext ==
    \/ \E e \in DispatchUpdates : arrive(e)
    \/ fetch
    \/ \E i \in DOMAIN running, dbOk \in BOOLEAN : process_command(i, dbOk)
    \/ \E i \in DOMAIN running, dbOk \in BOOLEAN :
            process_callback_query(i, dbOk)
    \/ \E i \in DOMAIN running, dbOk \in BOOLEAN : process_message(i, dbOk)

SpecDispatch == DispatchInit /\ [][DispatchNext]_vars

\* ----------------------------------------------------- the shutdown signal

\* SIGINT or SIGTERM, as the last thing the process handled.
Signal == Event("signal", 0, NoData, <<>>, NotForwarded)

\* The application polls and serves updates until it is stopped.
polling == event # Signal

\* The clients of the bot's temp_clients mapping, which shutdown_handler reads
\* with getattr(self, 'temp_clients', {}): no code assigns the attribute (the
\* clients of open flows are kept in context.user_data['temp_client']), so
\* the default is what it iterates.
temp_clients == {}

\* shutdown_handler: stop the application, disconnect the connected clients of
\* temp_clients, exit.
shutdown_handler ==
    /\ polling
    /\ event' = Signal
    /\ Deliver
    /\ LET idx == [c \in 1..Len(clients) |-> c]
           closing == SelectSeq(idx, LAMBDA c : c \in temp_clients
                                               /\ clients[c].connected)
       IN  /\ clients' = [c \in 1..Len(clients) |->
                             IF c \in temp_clients /\ clients[c].connected
                             THEN disconnect(clients, c)[c]
                             ELSE clients[c]]
           /\ trace' = <<Eff("stop", 0, "", <<>>, TRUE)>>
                        \o [i \in 1..Len(closing) |->
                               Eff("disconnect", closing[i], "", <<>>, TRUE)]
                        \o <<Eff("exit", 0, "", <<>>, TRUE)>>
    /\ UNCHANGED <<admins, sessions, user_data>>

\* The three handlers of create_application, served while polling.
on_command(u, dbOk) == polling /\ start_command(u, dbOk)
on_callback_query(u, data, dbOk) == polling /\ button_callback(u, data, dbOk)
on_message(u, text, fwd, dbOk) == polling /\ handle_message(u, text, fwd, dbOk)

ShutdownNext ==
    \/ \E u \in Users, dbOk \in BOOLEAN : on_command(u, dbOk)
    \/ \E u \in Users, data \in Buttons, dbOk \in BOOLEAN :
            on_callback_query(u, data, dbOk)
    \/ \E u \in Users, m \in TextUpdates, dbOk \in BOOLEAN :
            on_message(u, m[1], m[2], dbOk)
    \/ shutdown_handler

SpecShutdown == Init /\ [][ShutdownNext]_vars

\* ------------------------------------------- an admin removed in mid-flow

\* A user other than the main admin went as far as the code or the password
\* (the client is connected and stored, the phone number kept) and the row
\* was then removed from the admins table.
RevokeInit ==
    /\ \E r \in Users \ {MAIN_ADMIN_ID} :
          /\ \E stored \in StoredAdminTables :
                /\ ~stored[r].present
                /\ admins = init_database(stored)
          /\ \E ud \in {SentCode, Asked2FA} :
                user_data = [u \in Users |-> IF u = r THEN ud ELSE EmptyUserData]
          /\ clients = <<Client(r)>>
    /\ sessions = <<>>
    /\ event = NoEvent
    /\ trace = <<>>
    /\ steps = MaxEvents - 3
    /\ update_queue = <<>>
    /\ running = <<>>

SpecRevoke == RevokeInit /\ [][Next]_vars

\* ------------------------------------------------------------ properties

\* The flags of handle_message's if/elif chain.
ExpectingPhone(u) == user_data[u].expecting_phone
ExpectingCode(u) == user_data[u].expecting_code
Expecting2FA(u) == user_data[u].expecting_2fa
ExpectingAdminId(u) == user_data[u].expecting_admin_id

\* Idle: no expectation flag is set.
Idle(u) ==
    ~ExpectingPhone(u) /\ ~ExpectingCode(u) /\ ~Expecting2FA(u)
    /\ ~ExpectingAdminId(u)

\* The clients of u that are connected.
OpenClients(u) ==
    {c \in 1..Len(clients) : clients[c].owner = u /\ clients[c].connected}

\* The effects of a handler run with an op among ops.
Ops(t, ops) == {i \in 1..Len(t) : t[i].op \in ops}

HasRecord(u) == admins[u].present

C2_RevokedMidFlowHalts ==
    [][ (~HasRecord(event'.user)
         /\ (ExpectingPhone(event'.user) \/ ExpectingCode(event'.user)
             \/ Expecting2FA(event'.user)))
        => /\ Ops(trace', ProviderOps \cup MessageOps \cup {"save_session"}) = {}
           /\ sessions' = sessions
           /\ clients' = clients ]_vars

\* C2 witness: a user with an open client and a code expected, whose row is
\* gone, sent a well-formed code and nothing happened.
C2_Witness ==
    /\ event.kind = "text" /\ event.text = <<"4", " ", "6">>
    /\ ~HasRecord(event.user)
    /\ ExpectingCode(event.user) /\ ~ExpectingPhone(event.user)
    /\ user_data[event.user].temp_client \in OpenClients(event.user)
    /\ trace = <<>>

\* C3: the main admin always has a row; remove_admin(MAIN_ADMIN_ID) answers
\* False, with or without a storage error, and get_admins still lists the
\* main admin afterwards.
C3_RootNeverRemoved ==
    /\ HasRecord(MAIN_ADMIN_ID)
    /\ \A dbOk \in BOOLEAN :
         LET res == remove_admin(admins, MAIN_ADMIN_ID, dbOk)
         IN  ~res.ret /\ MAIN_ADMIN_ID \in get_admins(res.admins)

\* C3 witness: an admin sent "remove_admin_<main admin>", was told that the
\* removal failed, and the main admin's row is there.
C3_Witness ==
    /\ event.kind = "button"
    /\ event.data = Data("remove_admin_", MAIN_ADMIN_ID)
    /\ Len(trace) = 2 /\ trace[2].text = "remove_failed"
    /\ HasRecord(MAIN_ADMIN_ID)

\* Position of the first effect of t with this op on client or chat who, or 0.
First(t, op, who) ==
    IF \E i \in 1..Len(t) : t[i].op = op /\ t[i].who = who
    THEN CHOOSE i \in 1..Len(t) :
            /\ t[i].op = op /\ t[i].who = who
            /\ \A j \in 1..(i - 1) : ~(t[j].op = op /\ t[j].who = who)
    ELSE 0

\* Position of the first message of t with this text, or 0.
FirstText(t, text) ==
    IF \E i \in 1..Len(t) : t[i].op \in MessageOps /\ t[i].text = text
    THEN CHOOSE i \in 1..Len(t) :
            /\ t[i].op \in MessageOps /\ t[i].text = text
            /\ \A j \in 1..(i - 1) : ~(t[j].op \in MessageOps /\ t[j].text = text)
    ELSE 0

\* C4: an update sent by anyone but the main admin, whatever its callback
\* data or text, leaves the admins table as it was.
C4_OnlyRootChangesAdmins ==
    [][ event'.user # MAIN_ADMIN_ID => admins' = admins ]_vars

\* C5: when no expectation flag is set for a user, none of that user's
\* clients is connected, and every client of that user that was started has
\* been disconnected exactly once.
C5_IdleHasNoOpenClient ==
    \A u \in Users :
        Idle(u) =>
            /\ OpenClients(u) = {}
            /\ \A c \in 1..Len(clients) :
                 (clients[c].owner = u /\ clients[c].started)
                    => clients[c].closes = 1

\* C6: a user never has two connected clients.
C6_AtMostOneOpenClient ==
    \A u \in Users : Cardinality(OpenClients(u)) <= 1

\* C7: when "back_to_main" is served, every client the user had open is
\* disconnected before the main menu is sent.
C7_CancelClosesClientFirst ==
    [][ (event'.kind = "button" /\ event'.data.name = "back_to_main"
         /\ FirstText(trace', "main_menu") # 0)
        => \A c \in OpenClients(event'.user) :
              /\ First(trace', "disconnect", c) # 0
              /\ First(trace', "disconnect", c) < FirstText(trace', "main_menu")
      ]_vars

\* C8: once "back_to_main" is served the user is Idle: no expectation flag
\* is left set, so the next text is not taken as a phone number, a code, a
\* password or an admin id.
C8_CancelLeadsToIdle ==
    ~(/\ event.kind = "button" /\ event.data.name = "back_to_main"
      /\ FirstText(trace, "main_menu") # 0)
    \/ Idle(event.user)

\* The provider reported the client authorized in this handler run.
Authorized(t) ==
    \E i \in 1..Len(t) : t[i].op = "is_user_authorized" /\ t[i].ok

\* No provider call, no table write and no reply of this handler run failed
\* (the backup message to the main admin may have).
NoFault(t) ==
    \A i \in 1..Len(t) :
        (t[i].op \in ProviderOps \cup StoreWriteOps \cup {"reply", "edit"})
            => t[i].ok

\* C9: when the provider reports the client authorized and no provider call,
\* table write or reply fails, the handler extracts the session string and the account,
\* disconnects the client, saves the row, shows the session to the user and
\* sends the backup to the main admin, in this order; afterwards no
\* expectation flag is set for the user and no client is stored.
C9_FinalizeOrder ==
    (Authorized(trace) /\ NoFault(trace)) =>
        LET u == event.user
            c == trace[CHOOSE i \in 1..Len(trace) :
                        trace[i].op = "is_user_authorized"].who
            extract == First(trace, "get_me", c)
            close == First(trace, "disconnect", c)
            save == First(trace, "save_session", u)
            show == FirstText(trace, "session_generated")
            relay == First(trace, "send", MAIN_ADMIN_ID)
        IN  /\ 0 < First(trace, "session_save", c)
            /\ First(trace, "session_save", c) < extract
            /\ extract < close /\ close < save /\ save < show /\ show < relay
            /\ Idle(u)
            /\ user_data[u].temp_client = NoClient

\* C10: when save_session answers False for an authorized client, the user is
\* told that the save failed and is still sent the session string.
C10_SaveFailureStillShows ==
    \A i \in 1..Len(trace) :
        (trace[i].op = "save_session" /\ ~trace[i].ok) =>
            /\ FirstText(trace, "save_failed") # 0
            /\ \E j \in 1..Len(trace) :
                 /\ trace[j].op \in MessageOps /\ trace[j].ok
                 /\ trace[j].who = event.user
                 /\ trace[j].payload # <<>>
                 /\ trace[j].payload[3] = trace[i].payload[3]

\* The sends of a handler run to the main admin's chat.
Relays(t) == Ops(t, {"send"})

\* No provider call and no reply of this handler run failed.
NoProviderFault(t) ==
    \A i \in 1..Len(t) :
        (t[i].op \in ProviderOps \cup {"reply", "edit"}) => t[i].ok

\* C11: whenever the provider reports the client authorized and the session
\* string is extracted (no provider call or reply failing), exactly one
\* message is sent to the main admin, whoever generated the session and
\* whether or not save_session succeeded.
C11_AlwaysRelayedOnce ==
    (Authorized(trace) /\ NoProviderFault(trace)) =>
        /\ Cardinality(Relays(trace)) = 1
        /\ \A k \in Relays(trace) : trace[k].who = MAIN_ADMIN_ID

C13_RelayFraming ==
    \A k \in Relays(trace) :
        LET m == trace[k]
            show == trace[FirstText(trace, "session_generated")]
        IN  /\ m.who = MAIN_ADMIN_ID
            /\ m.text \in {"backup", "self_backup"}
            /\ (m.text = "self_backup") <=> (event.user = MAIN_ADMIN_ID)
            /\ (m.text = "backup") =>
                  (m.payload[4] = event.user /\ m.payload[5] = steps)
            /\ FirstText(trace, "session_generated") # 0
            /\ show.who = event.user
            /\ SubSeq(m.payload, 1, 3) = show.payload

\* C13 witness: an admin other than the main admin generated a session and
\* the backup alert was sent.
C13_Witness ==
    /\ event.user # MAIN_ADMIN_ID
    /\ \E k \in Relays(trace) : trace[k].text = "backup" /\ trace[k].ok

C15_AddAdminIdempotent ==
    [][ LET n == Len(trace)
        IN  (/\ n >= 1
             /\ Len(trace') = n + 1
             /\ trace[n].op = "add_admin"
             /\ trace'[n + 1].op = "add_admin"
             /\ trace'[n + 1].user_id = trace[n].user_id
             /\ trace[n].dbOk
             /\ trace'[n + 1].dbOk)
            => LET b == trace'[n + 1]
               IN  /\ trace[n].ret
                   /\ b.ret
                   /\ admins'[b.user_id] =
                         Row(b.names.username, b.names.first_name, b.added_by)
                   /\ get_admins(admins') = get_admins(admins)
                   /\ \A q \in Ids \ {b.user_id} : admins'[q] = admins[q]
      ]_vars

\* C15 witness: two successive add_admin calls for one id with different
\* names and adders, both answered True, the row holding the second's.
C15_Witness ==
    /\ Len(trace) = 2
    /\ trace[1].op = "add_admin"
    /\ trace[2].op = "add_admin"
    /\ trace[1].user_id = trace[2].user_id
    /\ trace[1].names # trace[2].names
    /\ trace[1].added_by # trace[2].added_by
    /\ trace[1].ret
    /\ trace[2].ret
    /\ admins[trace[2].user_id].username = trace[2].names.username
    /\ admins[trace[2].user_id].added_by = trace[2].added_by

\* C16: remove_admin(p), the storage working, returns True exactly when p is
\* not the main admin and had a row, and then only p's row is gone; when it
\* returns False (also on a storage error) the table is unchanged.
C16_RemoveAdminExact ==
    [][ LET n == Len(trace)
        IN  (Len(trace') = n + 1 /\ trace'[n + 1].op = "remove_admin")
            => LET b == trace'[n + 1]
                   p == b.user_id
               IN  /\ b.dbOk =>
                         (b.ret <=> (p # MAIN_ADMIN_ID /\ admins[p].present))
                   /\ ~b.dbOk => ~b.ret
                   /\ IF b.ret
                      THEN /\ ~admins'[p].present
                           /\ \A q \in Ids \ {p} : admins'[q] = admins[q]
                      ELSE admins' = admins
      ]_vars

\* C16 witness: a remove_admin that returned True and one, for the main
\* admin, that returned False, the main admin's row still there.
C16_Witness ==
    /\ Len(trace) = 2
    /\ trace[1].op = "remove_admin"
    /\ trace[1].ret
    /\ ~admins[trace[1].user_id].present
    /\ trace[2].op = "remove_admin"
    /\ trace[2].user_id = MAIN_ADMIN_ID
    /\ trace[2].dbOk
    /\ ~trace[2].ret
    /\ admins[MAIN_ADMIN_ID].present

\* C17: when the read of the admins table fails, is_admin answers False for
\* every user, the main admin included, and the update whose handler asked is
\* handled as a non-admin's: nothing is sent beyond the answer to a button
\* press, no provider or table call is made and no state changes.
C17_IsAdminFailsClosed ==
    [][ LET ignored(sent) ==
                /\ trace' = sent
                /\ UNCHANGED <<admins, sessions, user_data, clients>>
        IN  \A u \in Users :
                /\ is_admin(admins, u, FALSE) = FALSE
                /\ start_command(u, FALSE) => ignored(<<>>)
                /\ \A data \in Buttons :
                      button_callback(u, data, FALSE)
                          => ignored(<<Eff("answer", u, "", <<>>, TRUE)>>)
                /\ \A m \in TextUpdates :
                      handle_message(u, m[1], m[2], FALSE) => ignored(<<>>)
      ]_vars

\* C17 witness: the main admin, in the table, pressed generate_session and
\* got the query answered only, which happens when the read failed.
C17_Witness ==
    /\ event.kind = "button"
    /\ event.user = MAIN_ADMIN_ID
    /\ event.data.name = "generate_session"
    /\ is_admin(admins, MAIN_ADMIN_ID, TRUE)
    /\ trace = <<Eff("answer", MAIN_ADMIN_ID, "", <<>>, TRUE)>>
    /\ ~user_data[MAIN_ADMIN_ID].expecting_phone

\* What the documentation asks of a text, written from its words.
Without(s, chars) == SelectSeq(s, LAMBDA ch : ch \notin chars)

AllDigits(s) == s # <<>> /\ \A i \in 1..Len(s) : s[i] \in Digits

DocPhoneOk(text) ==
    LET t == strip(text)
    IN  /\ t # <<>>
        /\ t[1] = "+"
        /\ AllDigits(Without(Tail(t), {" ", "-"}))

DocPhoneNormal(text) == Without(strip(text), {" ", "-"})

DocCodeOk(text) == AllDigits(Without(text, {" "}))

PhoneStep == user_data[MAIN_ADMIN_ID].expecting_phone /\ event'.kind = "text"

CodeStep == user_data[MAIN_ADMIN_ID].expecting_code /\ event'.kind = "text"

Reprompt(t, text) == t = <<Eff("reply", MAIN_ADMIN_ID, text, <<>>, TRUE)>>

\* C18 as stated: a phone number is accepted (a client is created and the
\* code is requested for the normalised number) exactly when, spaces and
\* dashes removed, it is "+" followed by one or more digits.
C18_PhoneAcceptedIffPlusDigits ==
    [][ PhoneStep =>
            IF DocPhoneOk(event'.text)
            THEN /\ Len(clients') = Len(clients) + 1
                 /\ \A k \in Ops(trace', {"send_code_request"}) :
                        trace'[k].payload = DocPhoneNormal(event'.text)
            ELSE /\ Reprompt(trace', "invalid_phone")
                 /\ clients' = clients
      ]_vars

\* C19: a code is accepted exactly when, spaces removed, it is a non-empty
\* string of digits, and sign_in is then called once with that space-free
\* string; any other text is answered with the invalid-code reply and no
\* sign_in.
C19_CodeAcceptedIffDigits ==
    [][ CodeStep =>
            IF DocCodeOk(event'.text)
            THEN /\ Cardinality(Ops(trace', {"sign_in"})) = 1
                 /\ \A k \in Ops(trace', {"sign_in"}) :
                        trace'[k].payload[2] = Without(event'.text, {" "})
            ELSE /\ Reprompt(trace', "invalid_code_format")
                 /\ Ops(trace', {"sign_in"}) = {}
      ]_vars

\* C19 witness: "4 6 9 4 9" was passed to sign_in as "46949".
C19_Witness ==
    /\ event.text = <<"4", " ", "6", " ", "9", " ", "4", " ", "9">>
    /\ \E k \in Ops(trace, {"sign_in"}) :
          trace[k].payload[2] = <<"4", "6", "9", "4", "9">>

\* C20: a malformed phone number or code never reaches the provider: the
\* handler creates no client, makes no provider call and answers with the
\* reprompt of its step.
C20_MalformedNeverReachesProvider ==
    [][ /\ (PhoneStep /\ ~DocPhoneOk(event'.text))
            => /\ Ops(trace', ProviderOps) = {}
               /\ clients' = clients
               /\ Reprompt(trace', "invalid_phone")
        /\ (CodeStep /\ ~DocCodeOk(event'.text))
            => /\ Ops(trace', ProviderOps) = {}
               /\ clients' = clients
               /\ Reprompt(trace', "invalid_code_format")
      ]_vars

\* C20 witness: "+12a4" was sent as a phone number and answered with the
\* reprompt, no client existing.
C20_Witness ==
    /\ event.text = <<"+", "1", "2", "a", "4">>
    /\ Reprompt(trace, "invalid_phone")
    /\ clients = <<>>

\* C21: the sessions table is append-only: every handler leaves the rows it
\* found in place and unchanged (session string, phone number, account name
\* and creator), adds at most one row, and a new row comes after all earlier
\* ones (the AUTOINCREMENT id of a row is its position in the table).
C21_SessionsAppendOnly ==
    [][ /\ Len(sessions') \in {Len(sessions), Len(sessions) + 1}
        /\ \A i \in 1..Len(sessions) : sessions'[i] = sessions[i]
      ]_vars

\* C21 witness: a flow saved a second row, the earlier row still the first.
C21_Witness ==
    /\ Len(sessions) = 2
    /\ sessions[1] \in { t[1] : t \in StoredSessionTables \ {<<>>} }
    /\ sessions[2].phone_number = sessions[1].phone_number
    /\ \E k \in Ops(trace, {"save_session"}) : trace[k].ok

\* C22: init_database on a table without a row for the main admin inserts
\* one with added_by the main admin; on a table that has one, also one
\* overwritten by add_admin, it leaves that row as it is; every other row is
\* unchanged in both cases.
C22_Bootstrap ==
    [][ (Len(trace') = Len(trace) + 1
         /\ trace'[Len(trace')].op = "init_database")
        => /\ admins'[MAIN_ADMIN_ID].present
           /\ IF admins[MAIN_ADMIN_ID].present
              THEN admins'[MAIN_ADMIN_ID] = admins[MAIN_ADMIN_ID]
              ELSE admins'[MAIN_ADMIN_ID].added_by = MAIN_ADMIN_ID
           /\ \A q \in Ids \ {MAIN_ADMIN_ID} : admins'[q] = admins[q]
      ]_vars

\* C22 witness: after the construction, add_admin overwrote the main
\* admin's row and init_database, called again, left it so.
C22_Witness ==
    /\ Len(trace) = 3
    /\ trace[1].op = "init_database"
    /\ trace[2].op = "add_admin"
    /\ trace[2].user_id = MAIN_ADMIN_ID
    /\ trace[2].ret
    /\ trace[2].added_by # MAIN_ADMIN_ID
    /\ trace[3].op = "init_database"
    /\ admins[MAIN_ADMIN_ID].added_by = trace[2].added_by

\* C23: a text of invalid format sent when a phone number is awaited is
\* answered with the reprompt and the phone number is still awaited (the
\* user's next text is processed as a phone number again).
C23_InvalidPhoneStaysAwaitingPhone ==
    [][ (PhoneStep /\ Reprompt(trace', "invalid_phone"))
            => user_data'[MAIN_ADMIN_ID].expecting_phone
      ]_vars

\* C24: an admin with no flag set who presses generate_session is asked for
\* the phone number and awaits it; a valid phone number (the documentation's
\* format) then makes one client and, once connected, one send_code_request,
\* and when that succeeds the user awaits the code, holding that client,
\* connected, and the normalised phone number.
C24_GenerateThenPhone ==
    [][ \A u \in Users :
          /\ (HasRecord(u) /\ Idle(u)
               /\ button_callback(u, Data("generate_session", 0), TRUE))
              => /\ user_data'[u].expecting_phone
                 /\ FirstText(trace', "ask_phone") # 0
          /\ (HasRecord(u) /\ ExpectingPhone(u) /\ event'.kind = "text"
               /\ event'.user = u /\ trace' # <<>> /\ DocPhoneOk(event'.text))
              => /\ Len(clients') = Len(clients) + 1
                 /\ Cardinality(Ops(trace', {"connect"})) = 1
                 /\ \A k \in Ops(trace', {"connect"}) :
                       trace'[k].ok =>
                           Cardinality(Ops(trace', {"send_code_request"})) = 1
                 /\ \A k \in Ops(trace', {"send_code_request"}) :
                       trace'[k].ok =>
                           /\ ~user_data'[u].expecting_phone
                           /\ user_data'[u].expecting_code
                           /\ user_data'[u].temp_client = Len(clients')
                           /\ clients'[Len(clients')].connected
                           /\ user_data'[u].phone = DocPhoneNormal(event'.text)
      ]_vars

\* C25: when connect or send_code_request fails for a valid phone number,
\* the user gets the error reply, no expectation flag is set afterwards and
\* the client made for the attempt is not left connected.
C25_PhoneFaultEndsIdleAndClosed ==
    [][ \A u \in Users :
          (/\ ExpectingPhone(u)
           /\ event'.kind = "text"
           /\ event'.user = u
           /\ \E k \in Ops(trace', {"connect", "send_code_request"}) :
                  ~trace'[k].ok)
          => /\ FirstText(trace', "error_sending_code") # 0
             /\ ~user_data'[u].expecting_phone
             /\ ~user_data'[u].expecting_code
             /\ ~user_data'[u].expecting_2fa
             /\ \A c \in 1..Len(clients') :
                   clients'[c].owner = u => ~clients'[c].connected
      ]_vars

\* C26: when sign_in raises PhoneCodeInvalidError the user is asked for the
\* code again and still awaits it, with the same client, still connected,
\* and the same phone number; and a code sent by a user who awaits one with a
\* connected client goes to sign_in on that client with that phone number,
\* no client being made and no code requested again.
C26_InvalidCodeStaysAwaitingCode ==
    [][ \A u \in Users :
          LET c == user_data[u].temp_client
              served == /\ ~ExpectingPhone(u)
                        /\ ExpectingCode(u)
                        /\ event'.kind = "text"
                        /\ event'.user = u
                        /\ trace' # <<>>
          IN  /\ (served /\ FirstText(trace', "invalid_code") # 0)
                  => /\ trace'[Len(trace')].text = "invalid_code"
                     /\ ~user_data'[u].expecting_phone
                     /\ user_data'[u].expecting_code
                     /\ user_data'[u].temp_client = c
                     /\ user_data'[u].phone = user_data[u].phone
                     /\ clients' = clients
                     /\ clients[c].connected
              /\ (served /\ c # NoClient /\ user_data[u].phone # None
                   /\ AllDigits(Without(event'.text, {" "})))
                  => /\ Ops(trace', {"connect", "send_code_request"}) = {}
                     /\ Cardinality(Ops(trace', {"sign_in"})) = 1
                     /\ \A k \in Ops(trace', {"sign_in"}) :
                           /\ trace'[k].who = c
                           /\ trace'[k].payload[1] = user_data[u].phone
      ]_vars

\* C26 witness: a code was refused as invalid and the user still awaits the
\* code with the client connected.
C26_Witness ==
    /\ event.kind = "text"
    /\ FirstText(trace, "invalid_code") # 0
    /\ \E k \in Ops(trace, {"sign_in"}) : ~trace[k].ok
    /\ user_data[event.user].expecting_code
    /\ user_data[event.user].temp_client # NoClient
    /\ clients[user_data[event.user].temp_client].connected

\* C27: when sign_in raises SessionPasswordNeededError the user awaits the
\* password and no longer the code, with the same client; a text sent then
\* goes as it is, whatever it is, to sign_in(password=...) on that client;
\* PasswordHashInvalidError is answered with the reprompt and the password is
\* still awaited with the same connected client; and when the client is then
\* authorized, complete_session_generation runs once.
C27_TwoFactorBranch ==
    [][ \A u \in Users :
          LET c == user_data[u].temp_client
              text_of_u == event'.kind = "text" /\ event'.user = u
                           /\ trace' # <<>>
              in_code == ~ExpectingPhone(u) /\ ExpectingCode(u) /\ text_of_u
              in_2fa == /\ ~ExpectingPhone(u)
                        /\ ~ExpectingCode(u)
                        /\ Expecting2FA(u)
                        /\ text_of_u
              awaits_2fa == /\ ~user_data'[u].expecting_phone
                            /\ ~user_data'[u].expecting_code
                            /\ user_data'[u].expecting_2fa
                            /\ user_data'[u].temp_client = c
                            /\ clients' = clients
                            /\ clients[c].connected
          IN  /\ (in_code /\ FirstText(trace', "ask_2fa") # 0) => awaits_2fa
              /\ (in_2fa /\ c # NoClient /\ user_data[u].phone # None)
                  => /\ Cardinality(Ops(trace', {"sign_in_password"})) = 1
                     /\ \A k \in Ops(trace', {"sign_in_password"}) :
                           trace'[k].who = c /\ trace'[k].payload = event'.text
                     /\ Ops(trace', {"connect", "send_code_request",
                                      "sign_in"}) = {}
              /\ (in_2fa /\ FirstText(trace', "invalid_2fa") # 0)
                  => /\ trace'[Len(trace')].text = "invalid_2fa"
                     /\ awaits_2fa
              /\ (in_2fa /\ Authorized(trace'))
                  => /\ Cardinality(Ops(trace', {"session_save"})) = 1
                     /\ Cardinality(Ops(trace', {"get_me"})) = 1
      ]_vars

\* C27 witness: the password "ab", not a digit string, was passed to
\* sign_in(password=...), the client was authorized and the session string
\* extracted.
C27_Witness ==
    /\ event.kind = "text"
    /\ event.text = <<"a", "b">>
    /\ \E k \in Ops(trace, {"sign_in_password"}) :
          trace[k].ok /\ trace[k].payload = <<"a", "b">>
    /\ Authorized(trace)
    /\ Ops(trace, {"session_save"}) # {}

\* C28: when sign_in fails with another error than an invalid code or a
\* needed password, sign_in(password=...) with another error than an invalid
\* password, or a call of complete_session_generation fails, the attempt is
\* over: the handler ends with a failure message to the user, the user's
\* client is no longer connected nor kept in user_data, and no expectation
\* flag is set.
C28_ProviderFaultIsTerminal ==
    [][ \A u \in Users :
          LET c == user_data[u].temp_client
          IN  (/\ event'.kind = "text"
               /\ event'.user = u
               /\ c # NoClient
               /\ \E k \in Ops(trace', {"sign_in", "sign_in_password",
                                         "session_save", "get_me",
                                         "disconnect"}) : ~trace'[k].ok
               /\ FirstText(trace', "invalid_code") = 0
               /\ FirstText(trace', "ask_2fa") = 0
               /\ FirstText(trace', "invalid_2fa") = 0)
              => /\ trace'[Len(trace')].op \in MessageOps
                 /\ trace'[Len(trace')].who = u
                 /\ ~clients'[c].connected
                 /\ user_data'[u].temp_client = NoClient
                 /\ ~user_data'[u].expecting_phone
                 /\ ~user_data'[u].expecting_code
                 /\ ~user_data'[u].expecting_2fa
                 /\ ~user_data'[u].expecting_admin_id
      ]_vars

\* C29: every user has at most one of the flags expecting_phone,
\* expecting_code, expecting_2fa and expecting_admin_id set.
C29_AtMostOneFlag ==
    \A u \in Users :
        Cardinality({f \in {"expecting_phone", "expecting_code",
                            "expecting_2fa", "expecting_admin_id"} :
                        user_data[u][f]}) <= 1

\* C30: updates are handled one at a time in the order of their arrival: at
\* most one update is in the hands of a handler, a second one is not fetched
\* while it is, and the update a handler finishes is the oldest one not yet
\* handled; so the text after a code is served by the step the code's
\* handler left, never by the step it found.
C30_OneUpdateAtATimeInOrder ==
    [][ /\ Len(running') <= 1
        /\ (steps' = steps + 1)
              => \E i \in DOMAIN running :
                    /\ running[i].event = event'
                    /\ running[i].n = steps'
                    /\ running' = RemoveAt(running, i)
        /\ (running' # running /\ running' # <<>>)
              => /\ running = <<>>
                 /\ running'[1] = Head(update_queue)
      ]_vars

\* C30 witness: the second update handled, the text "ab", went to
\* sign_in(password=...) (the handler of the first, a code, was told that a
\* password is needed), a third update waiting in the queue meanwhile.
C30_Witness ==
    /\ steps = MaxEvents - 1
    /\ event.text = <<"a", "b">>
    /\ \E k \in Ops(trace, {"sign_in_password"}) :
          trace[k].payload = <<"a", "b">>
    /\ running = <<>>
    /\ update_queue # <<>>

\* C31: a text served by the admin-id step never overwrites a row: when the
\* forwarded sender or the typed number already has a row in the admins
\* table the user is told so and the table is unchanged; when it has none the
\* row is added with added_by the sending user (or, the write failing, the
\* user is told so and the table is unchanged); a text that is no number and
\* not forwarded is answered with the invalid-id reply, the table unchanged.
\* (0 is no user id: Telegram's ids are positive.)
C31_AddAdminNeverOverwrites ==
    [][ \A u \in Users :
          LET e == event'
              served == /\ ~ExpectingPhone(u)
                        /\ ~ExpectingCode(u)
                        /\ ~Expecting2FA(u)
                        /\ ExpectingAdminId(u)
                        /\ e.kind = "text"
                        /\ e.user = u
                        /\ trace' # <<>>
              forwarded == e.fwd \in Users
              typed == e.fwd = NotForwarded
              parsed == int(e.text)
              id == IF forwarded THEN e.fwd ELSE parsed.val
          IN  served =>
                /\ (typed /\ ~parsed.ok)
                    => /\ Reprompt(trace', "invalid_user_id") \/ u # MAIN_ADMIN_ID
                       /\ FirstText(trace', "invalid_user_id") # 0
                       /\ admins' = admins
                /\ ((forwarded \/ (typed /\ parsed.ok)) /\ id \in Users)
                    => IF admins[id].present
                       THEN /\ FirstText(trace', "already_admin") # 0
                            /\ admins' = admins
                       ELSE \/ /\ FirstText(trace', "add_failed") # 0
                               /\ admins' = admins
                            \/ /\ FirstText(trace', "admin_added") # 0
                               /\ admins'[id].present
                               /\ admins'[id].added_by = u
                               /\ \A q \in Ids \ {id} : admins'[q] = admins[q]
      ]_vars

\* C32: once the shutdown signal was handled, no client kept for a user's
\* open flow (the temp_client of a user waiting for the code or the
\* password) is still connected.
C32_ShutdownDisconnectsOpenClients ==
    event = Signal
    => \A u \in Users :
          user_data[u].temp_client # NoClient
          => ~clients[user_data[u].temp_client].connected

\* An effect that stores, shows or relays a session string.
Artifact(e) ==
    \/ e.op = "save_session"
    \/ /\ e.op \in MessageOps
       /\ e.text \in {"session_generated", "backup", "self_backup"}

\* C33: a handler run stores, shows or relays a session string only after,
\* in that same run, a sign_in on the user's stored client with the user's
\* stored phone number returned and the provider then reported that client
\* authorized; the string is that client's, and a row is added to the
\* sessions table by such a run only. Invalid codes or passwords, provider
\* faults, back_to_main and pressing generate_session again yield none of it.
C33_ArtifactOnlyAfterAuthorized ==
    [][ LET u == event'.user
            c == user_data[u].temp_client
        IN  /\ \A k \in 1..Len(trace') :
                  Artifact(trace'[k]) =>
                    /\ event'.kind = "text"
                    /\ c # NoClient
                    /\ trace'[k].payload[3] = session_save(c)
                    /\ trace'[k].payload[2] = user_data[u].phone
                    /\ clients'[c].authorized
                    /\ \E i, j \in 1..(k - 1) :
                          /\ i < j
                          /\ trace'[i].op \in {"sign_in", "sign_in_password"}
                          /\ trace'[i].who = c
                          /\ trace'[i].ok
                          /\ trace'[j].op = "is_user_authorized"
                          /\ trace'[j].who = c
                          /\ trace'[j].ok
            /\ sessions' # sessions =>
                  \E k \in 1..Len(trace') :
                      trace'[k].op = "save_session" /\ trace'[k].ok
      ]_vars

\* C33 witness: after the code the provider asked for the password; the
\* password signed the client in, the provider reported it authorized, and
\* the session was saved, shown and relayed.
C33_Witness ==
    /\ event.kind = "text"
    /\ \E i \in 1..Len(trace) : trace[i].op = "sign_in_password" /\ trace[i].ok
    /\ Authorized(trace)
    /\ \E k \in 1..Len(trace) :
          trace[k].op = "save_session" /\ trace[k].ok /\ Artifact(trace[k])
    /\ \E k \in 1..Len(trace) :
          trace[k].op = "edit" /\ trace[k].ok /\ Artifact(trace[k])
    /\ \E k \in Relays(trace) : Artifact(trace[k])
    /\ sessions # <<>>

\* C34: handling an update of one user leaves the conversation data of every
\* other user (flags, stored client, phone number) and that user's stored
\* client as they were, and a row added to the sessions table has created_by
\* the user whose update the handler was serving.
C34_ConversationStatePrivate ==
    [][ /\ \A b \in Users \ {event'.user} :
              /\ user_data'[b] = user_data[b]
              /\ user_data[b].temp_client # NoClient
                    => clients'[user_data[b].temp_client]
                          = clients[user_data[b].temp_client]
        /\ sessions' # sessions
              => /\ Len(sessions') = Len(sessions) + 1
                 /\ SubSeq(sessions', 1, Len(sessions)) = sessions
                 /\ sessions'[Len(sessions')].created_by = event'.user
      ]_vars

\* C34 witness: admin 2 completed a flow and the row is theirs, while the
\* main admin, asked for a phone number before, is still asked for it.
C34_Witness ==
    /\ event.kind = "text"
    /\ event.user = 2
    /\ \E k \in 1..Len(trace) : trace[k].op = "save_session" /\ trace[k].ok
    /\ sessions # <<>>
    /\ sessions[Len(sessions)].created_by = 2
    /\ ExpectingPhone(MAIN_ADMIN_ID)
    /\ Idle(2)

\* C35: removing a user's row in mid-flow does not reset the conversation:
\* the step that removes the row, and every step taken while the row is
\* missing (the one that adds it again included), leaves the user's flags,
\* phone number and stored client, and that client itself, as they were; and
\* once the row is there again the user's next text goes on with the old
\* flow: a code is passed to sign_in, a password to the password sign_in, on
\* the stored client with the stored phone number.
C35_RevokedFlowResumes ==
    [][ \A u \in Users :
          LET c == user_data[u].temp_client
              phone == user_data[u].phone
              text == event'.text
              served == /\ event'.kind = "text"
                        /\ event'.user = u
                        /\ trace' # <<>>
                        /\ ~ExpectingPhone(u)
                        /\ c # NoClient
                        /\ phone # None
          IN  /\ (~HasRecord(u) \/ ~admins'[u].present)
                    => /\ user_data'[u] = user_data[u]
                       /\ c # NoClient => clients'[c] = clients[c]
              /\ (served /\ ExpectingCode(u) /\ isdigit(clean_code(text)))
                    => \E i \in 1..Len(trace') :
                          /\ trace'[i].op = "sign_in"
                          /\ trace'[i].who = c
                          /\ trace'[i].payload = <<phone, clean_code(text)>>
              /\ (served /\ ~ExpectingCode(u) /\ Expecting2FA(u))
                    => \E i \in 1..Len(trace') :
                          /\ trace'[i].op = "sign_in_password"
                          /\ trace'[i].who = c
                          /\ trace'[i].payload = text
      ]_vars

\* C35 witness: the user whose row was missing while the code was awaited
\* has a row again, added by the main admin, and the text they sent was
\* passed as the code to sign_in on the client opened before the removal,
\* with the phone number kept from then.
C35_Witness ==
    /\ event.kind = "text"
    /\ event.user # MAIN_ADMIN_ID
    /\ HasRecord(event.user)
    /\ admins[event.user].added_by = MAIN_ADMIN_ID
    /\ clients[1].owner = event.user
    /\ \E i \in 1..Len(trace) :
          /\ trace[i].op = "sign_in"
          /\ trace[i].who = 1
          /\ trace[i].payload = <<SentCode.phone, clean_code(event.text)>>

====
